---------------------------- MODULE Spec2Model ----------------------------
(***************************************************************************)
(* A model of commune's Keypair (src/commune/key/key.py): construction     *)
(* through set_params, the create_from_* class methods, sign / verify,     *)
(* message encryption, and persistence (state_dict / save / load) over the *)
(* module's key storage.                                                   *)
(*                                                                         *)
(* Python values are records [ty, v]: ty is the Python type ("none",       *)
(* "bytes", "str", "int") and v a tuple of symbols standing for the        *)
(* content.  The hex text of the bytes b is the str whose content is       *)
(* <<"hex">> \o b.v, so bytes and their hex form are different values and  *)
(* bytes.fromhex / bytes.hex are real conversions.  The cryptographic      *)
(* backends are free constructors: a key is named by its scheme, its role  *)
(* and the material it was derived from.                                   *)
(***************************************************************************)
EXTENDS Naturals, Sequences, FiniteSets, TLC

VARIABLES
    kp,            \* kp[i]: the __dict__ of Keypair object i
    live,          \* live[i]: object i exists (its constructor returned)
    made,          \* made[i]: the constructor arguments object i was built with
    storage,       \* the key storage: path -> stored record (put_json / get_json)
    defaultNonce,  \* the default of encrypt_message's nonce parameter
    implicitNonces,\* the nonces used by encrypt_message calls that omitted nonce
    last,          \* the last operation: its name, object, outcome and values
    pc,            \* pc[t]: where thread t's constructor call stands
    targs,         \* targs[t]: the arguments of thread t's constructor call
    steps          \* the number of operations performed

vars == <<kp, live, made, storage, defaultNonce, implicitNonces, last, pc, targs, steps>>

---------------------------------------------------------------------------
(* Python values *)

None == [ty |-> "none", v |-> <<>>]
Bytes(t) == [ty |-> "bytes", v |-> t]
Str(t) == [ty |-> "str", v |-> t]
Int42 == [ty |-> "int", v |-> <<"42">>]

\* Python truthiness: None and the empty str / bytes are falsy
Truthy(x) == x.ty # "none" /\ x.v # <<>>

IsHexText(t) == Len(t) >= 1 /\ t[1] = "hex"

\* bytes.hex()
HexOf(b) == Str(<<"hex">> \o b.v)

\* s.replace('0x', '')
Strip0x(s) == IF Len(s.v) >= 1 /\ s.v[1] = "0x" THEN Str(Tail(s.v)) ELSE s

\* bytes.fromhex(s.replace('0x', '')): defined on hex text only
CanFromHex(s) == s.ty = "str" /\ IsHexText(Strip0x(s).v)
FromHex(s) == Bytes(Tail(Strip0x(s).v))

\* the content of a byte field, held as bytes or as hex text
AsBytes(x) == IF x.ty = "str" /\ CanFromHex(x) THEN FromHex(x) ELSE x

SR == Str(<<"sr25519">>)
ED == Str(<<"ed25519">>)
ECDSA == Str(<<"ecdsa">>)
CryptoTypes == {SR, ED, ECDSA}

---------------------------------------------------------------------------
(* The backends: sr25519, ed25519_zebra, eth_keys, bip39, scalecodec *)

\* len() of a bytes value
ByteLen(b) ==
    IF b.ty # "bytes" \/ Len(b.v) < 2 THEN 0
    ELSE IF b.v[1] = "sr25519" THEN (IF b.v[2] = "priv" THEN 64 ELSE 32)
    ELSE IF b.v[1] = "ecdsa" THEN (IF b.v[2] = "addr" THEN 20 ELSE 32)
    ELSE 32

IsSeedBytes(b) == b.ty = "bytes" /\ Len(b.v) >= 2 /\ b.v[1] = "seed"

\* sr25519.pair_from_seed(seed) -> (public_key, private_key)
SrPub(seed) == Bytes(<<"sr25519", "pub">> \o Tail(seed.v))
SrPriv(seed) == Bytes(<<"sr25519", "priv">> \o Tail(seed.v))
\* ed25519_zebra.ed_from_seed(seed) -> (private_key, public_key)
EdPub(seed) == Bytes(<<"ed25519", "pub">> \o Tail(seed.v))
EdPriv(seed) == Bytes(<<"ed25519", "priv">> \o Tail(seed.v))

\* sr25519.public_from_secret_key(private_key)
SrPublicFromSecret(priv) == Bytes(<<"sr25519", "pub">> \o SubSeq(priv.v, 3, Len(priv.v)))

\* bip39_to_mini_secret(mnemonic, "", language_code), as bytes
MiniSecret(mnemonic) == Bytes(<<"seed", "mini">> \o mnemonic.v)

\* mnemonic_to_ecdsa_private_key(mnemonic, str_derivation_path, passphrase)
EcdsaPrivFromMnemonic(mnemonic, path) == Bytes(<<"ecdsa", "priv">> \o mnemonic.v \o path)

\* PrivateKey(private_key).public_key.to_address(): '0x' + 40 hex digits, a str
EcdsaAddress(priv) == Str(<<"0x", "hex", "ecdsa", "addr">> \o SubSeq(priv.v, 3, Len(priv.v)))
\* PrivateKey(private_key).public_key.to_checksum_address()
EcdsaChecksumAddress(priv) == Str(<<"checksum">> \o SubSeq(priv.v, 3, Len(priv.v)))

\* ss58_encode(public_key, ss58_format)
Ss58Encode(pub, fmt) == Str(<<"ss58">> \o fmt.v \o pub.v)
\* ss58_decode(address): the public key as hex text
IsSs58(addr) == addr.ty = "str" /\ Len(addr.v) >= 2 /\ addr.v[1] = "ss58"
Ss58Decode(addr) == Str(<<"hex">> \o SubSeq(addr.v, 3, Len(addr.v)))

\* sr25519.hard_derive_keypair / sr25519.derive_keypair on one junction
DeriveChild(key, junction) == Bytes(key.v \o junction)


\* c.hash(seed): the digest of a free-form seed string, as hex text
Hash(seed) == Str(<<"hex", "seed", "hash">> \o seed.v)

---------------------------------------------------------------------------
(* Derivation URIs.  A suri is a tuple of tokens: a phrase or a junction    *)
(* name, or one of the delimiters "/", "//", "///".                         *)

DEV_PHRASE == <<"dev">>
Delims == {"/", "//", "///"}
StartsWithSlash(u) == Len(u) >= 1 /\ u[1] \in Delims

\* lines 380-384: what create_from_uri parses
PrefixedSuri(suri) ==
    LET s1 == IF ~StartsWithSlash(suri) THEN <<"/">> \o suri ELSE suri
    IN  IF s1 # <<>> /\ StartsWithSlash(s1) THEN DEV_PHRASE \o s1 ELSE s1

\* the index of the first "///" of u, or Len(u) + 1
RECURSIVE PwdAt(_, _)
PwdAt(u, k) == IF k > Len(u) THEN k ELSE IF u[k] = "///" THEN k ELSE PwdAt(u, k + 1)

\* (//?[^/]+)*: delimiter, name, delimiter, name, ...
RECURSIVE IsPath(_)
IsPath(p) ==
    \/ p = <<>>
    \/ /\ Len(p) >= 2
       /\ p[1] \in {"/", "//"}
       /\ p[2] \notin Delims
       /\ IsPath(SubSeq(p, 3, Len(p)))

\* the match of suri_regex: phrase, path, and password groups
SuriMatches(u) ==
    /\ Len(u) >= 1
    /\ u[1] \notin Delims
    /\ LET k == PwdAt(u, 2)
       IN  /\ IsPath(SubSeq(u, 2, k - 1))
           /\ Len(u) <= k + 1
           /\ (Len(u) = k + 1 => u[k + 1] \notin Delims)
SuriParts(u) ==
    LET k == PwdAt(u, 2)
    IN  [phrase |-> Str(<<u[1]>>),
         path |-> SubSeq(u, 2, k - 1),
         password |-> IF Len(u) = k + 1 THEN Str(<<u[k + 1]>>)
                      ELSE IF Len(u) = k THEN Str(<<>>) ELSE None]

\* suri_parts['path'][1:]
DropFirstChar(path) ==
    IF path = <<>> THEN <<>>
    ELSE IF path[1] = "/" THEN Tail(path) ELSE <<"/">> \o Tail(path)

\* lines 431-450: fold the junctions of path over a key, in order
RECURSIVE Walk(_, _)
Walk(key, path) ==
    IF path = <<>> THEN key
    ELSE Walk(DeriveChild(key, SubSeq(path, 1, 2)), SubSeq(path, 3, Len(path)))

---------------------------------------------------------------------------
(* The Keypair's __dict__ and the keyword dictionaries that update it *)

Fields == {"path", "password", "ss58_address", "public_key", "private_key", "ss58_format",
           "seed_hex", "mnemonic", "uri", "derive_path", "crypto_type"}

EmptyDict == [f \in Fields |-> None]

\* self.__dict__.update(kwargs)
Update(self, d) == [f \in Fields |-> IF f \in DOMAIN d THEN d[f] ELSE self[f]]

Fail(e) == [err |-> e, d |-> <<>>]
Ok(dict) == [err |-> "", d |-> dict]

\* create_from_seed(seed_hex, ss58_format, crypto_type, return_dict=True)
CreateFromSeedDict(seed_hex, ss58_format, crypto_type) ==
    IF seed_hex.ty = "str" /\ ~CanFromHex(seed_hex) THEN Fail("ValueError")
    ELSE LET seed == IF seed_hex.ty = "str" THEN FromHex(seed_hex) ELSE seed_hex
         IN  IF crypto_type \notin {SR, ED} THEN Fail("ValueError")
             ELSE IF ~IsSeedBytes(seed) THEN Fail("ValueError")
             ELSE IF ss58_format.ty # "int" THEN Fail("TypeError")
             ELSE LET pub == IF crypto_type = SR THEN SrPub(seed) ELSE EdPub(seed)
                      priv == IF crypto_type = SR THEN SrPriv(seed) ELSE EdPriv(seed)
                  IN  Ok([ss58_address |-> Ss58Encode(pub, ss58_format),
                          public_key |-> pub, private_key |-> priv,
                          ss58_format |-> ss58_format, crypto_type |-> crypto_type,
                          seed_hex |-> seed])

\* r with key k set to val, when r is a successful result
With(r, k, val) ==
    IF r.err # "" THEN r
    ELSE Ok([f \in DOMAIN r.d \cup {k} |-> IF f = k THEN val ELSE r.d[f]])

IsMnemonic(m) == m.ty = "str" /\ m.v # <<>>

\* create_from_mnemonic(mnemonic, ss58_format, crypto_type, return_dict=True)
CreateFromMnemonicDict(mnemonic, ss58_format, crypto_type) ==
    IF ~IsMnemonic(mnemonic) THEN Fail("ValueError")
    ELSE IF crypto_type = ECDSA
    THEN Ok([private_key |-> EcdsaPrivFromMnemonic(mnemonic, <<>>),
             ss58_format |-> ss58_format, crypto_type |-> crypto_type,
             mnemonic |-> mnemonic])
    ELSE With(CreateFromSeedDict(HexOf(MiniSecret(mnemonic)), ss58_format, crypto_type),
              "mnemonic", mnemonic)

\* lines 390-422 of create_from_uri with return_dict=True, on the parsed suri u
UriDict(u, parts, ss58_format, crypto_type) ==
    IF crypto_type = ECDSA
    THEN Ok([private_key |-> EcdsaPrivFromMnemonic(parts.phrase,
                                 DropFirstChar(parts.path) \o parts.password.v),
             ss58_format |-> ss58_format, crypto_type |-> crypto_type,
             mnemonic |-> parts.phrase, uri |-> Str(u)])
    ELSE IF Truthy(parts.password) THEN Fail("NotImplementedError")
    ELSE With(CreateFromMnemonicDict(parts.phrase, ss58_format, crypto_type), "uri", Str(u))

\* create_from_uri(suri, ss58_format, crypto_type, return_dict=True)
CreateFromUriDict(suri, ss58_format, crypto_type) ==
    IF ~SuriMatches(PrefixedSuri(suri)) THEN Fail("AttributeError")
    ELSE UriDict(PrefixedSuri(suri), SuriParts(PrefixedSuri(suri)), ss58_format, crypto_type)

---------------------------------------------------------------------------
(* Key storage (c.Module's put_json / get_json / ls / rm_json) and the      *)
(* password cipher (c.Module's encrypt / decrypt)                           *)

Paths == {"default", "bro"}
PathVal(p) == Str(<<p>>)

NoRecord == [present |-> FALSE, encrypted |-> FALSE, key |-> None, data |-> EmptyDict]

\* key_exists(path): path in ls_keys()
KeyExists(store, path) ==
    path.ty = "str" /\ Len(path.v) = 1 /\ path.v[1] \in Paths /\ store[path.v[1]].present

\* resolve_key_path(path)
ResolveKeyPath(self, path) == IF path = None THEN self.path ELSE path

IsPath1(path) == path.ty = "str" /\ Len(path.v) = 1 /\ path.v[1] \in Paths

---------------------------------------------------------------------------
(* state_dict, save *)

\* lines 724-727: every bytes value of self.__dict__ is replaced by its hex text,
\* in self.__dict__ itself (state_dict['data'] is that dictionary, not a copy)
HexFields(self) == [f \in Fields |-> IF self[f].ty = "bytes" THEN HexOf(self[f]) ELSE self[f]]

\* state_dict(password): the record, and self as state_dict leaves it
StateDict(self, password) ==
    LET after == HexFields(self)
    IN  [self |-> after,
         state |-> [present |-> TRUE, encrypted |-> password # None,
                    key |-> password, data |-> after]]

\* save(path, password): self and the storage as save leaves them
Save(self, store, path, password) ==
    LET p == ResolveKeyPath(self, path)
        sd == StateDict(self, password)
    IN  IF ~IsPath1(p) THEN [kp |-> sd.self, store |-> store, err |-> "TypeError"]
        ELSE [kp |-> sd.self, store |-> [store EXCEPT ![p.v[1]] = sd.state], err |-> ""]

---------------------------------------------------------------------------
(* set_params *)

DefaultArgs ==
    [path |-> PathVal("default"), seed |-> None, ss58_address |-> None, public_key |-> None,
     private_key |-> None, ss58_format |-> None, seed_hex |-> None, mnemonic |-> None,
     password |-> None, uri |-> None, derive_path |-> None, crypto_type |-> SR,
     refresh |-> FALSE, save |-> TRUE, load |-> TRUE]

NoProvenance(a) ==
    /\ a.seed = None /\ a.ss58_address = None /\ a.public_key = None
    /\ a.private_key = None /\ a.seed_hex = None /\ a.mnemonic = None /\ a.uri = None

\* lines 149-151
SeedHexArg(a) == IF Truthy(a.seed) /\ a.seed.ty = "str" THEN Hash(a.seed) ELSE a.seed_hex
\* lines 144-147; gen is what generate_mnemonic() returns
MnemonicArg(a, gen) == IF NoProvenance(a) THEN gen ELSE a.mnemonic

\* a fault for C3_FirstProvenanceWins to detect: the mnemonic consulted before the seed
ProvenanceDictMnemonicFirst(seed_hex, mnemonic, a) ==
    IF mnemonic # None THEN CreateFromMnemonicDict(mnemonic, Int42, SR)
    ELSE IF seed_hex # None THEN CreateFromSeedDict(seed_hex, Int42, SR)
    ELSE IF a.uri # None THEN CreateFromUriDict(a.uri.v, Int42, SR)
    ELSE Ok([ss58_address |-> a.ss58_address, public_key |-> a.public_key,
             private_key |-> a.private_key, ss58_format |-> a.ss58_format,
             seed_hex |-> seed_hex, mnemonic |-> mnemonic,
             derive_path |-> a.derive_path, crypto_type |-> a.crypto_type])

\* lines 153-170: the keyword dictionary of the first applicable provenance
ProvenanceDict(seed_hex, mnemonic, a) ==
    IF seed_hex # None THEN CreateFromSeedDict(seed_hex, Int42, SR)
    ELSE IF mnemonic # None THEN CreateFromMnemonicDict(mnemonic, Int42, SR)
    ELSE IF a.uri # None THEN CreateFromUriDict(a.uri.v, Int42, SR)
    ELSE Ok([ss58_address |-> a.ss58_address, public_key |-> a.public_key,
             private_key |-> a.private_key, ss58_format |-> a.ss58_format,
             seed_hex |-> seed_hex, mnemonic |-> mnemonic,
             derive_path |-> a.derive_path, crypto_type |-> a.crypto_type])

\* self.__dict__.update(kwargs), or the error of the call that was to return kwargs
UpdateWith(self, r) ==
    IF r.err # "" THEN [err |-> r.err, kp |-> self] ELSE [err |-> "", kp |-> Update(self, r.d)]

\* lines 144-170; [err, kp]
Provenance(self, a, gen) ==
    UpdateWith(self, ProvenanceDict(SeedHexArg(a), MnemonicArg(a, gen), a))

\* lines 172-176
DecodeAddress(self) ==
    LET s == [self EXCEPT !.derive_path = None]
    IN  IF s.crypto_type # ECDSA /\ Truthy(s.ss58_address) /\ ~Truthy(s.public_key)
        THEN IF ~IsSs58(s.ss58_address) THEN [err |-> "ValueError", kp |-> s]
             ELSE [err |-> "", kp |-> [s EXCEPT !.public_key = Ss58Decode(s.ss58_address)]]
        ELSE [err |-> "", kp |-> s]

\* lines 178-192; public_key is set_params' argument, not self.public_key
PrivateKeyStep(self, public_key) ==
    IF ~Truthy(self.private_key) THEN [err |-> "", kp |-> self]
    ELSE IF self.private_key.ty = "str" /\ ~CanFromHex(self.private_key)
    THEN [err |-> "ValueError", kp |-> self]
    ELSE LET s1 == IF self.private_key.ty = "str"
                   THEN [self EXCEPT !.private_key = FromHex(self.private_key)]
                   ELSE self
         IN  IF s1.crypto_type = SR
             THEN IF ByteLen(s1.private_key) # 64 THEN [err |-> "ValueError", kp |-> s1]
                  ELSE IF ~Truthy(public_key)
                  THEN [err |-> "", kp |-> [s1 EXCEPT !.public_key =
                                                SrPublicFromSecret(s1.private_key)]]
                  ELSE [err |-> "", kp |-> s1]
             ELSE IF s1.crypto_type = ECDSA
             THEN IF ByteLen(s1.private_key) # 32 THEN [err |-> "ValueError", kp |-> s1]
                  ELSE [err |-> "", kp |-> [s1 EXCEPT
                            !.public_key = EcdsaAddress(s1.private_key),
                            !.ss58_address = EcdsaChecksumAddress(s1.private_key)]]
             ELSE [err |-> "", kp |-> s1]

\* lines 194-208
PublicKeyStep(self) ==
    IF ~Truthy(self.public_key) THEN [err |-> "ValueError", kp |-> self]
    ELSE IF self.public_key.ty = "str" /\ ~CanFromHex(self.public_key)
    THEN [err |-> "ValueError", kp |-> self]
    ELSE LET s1 == IF self.public_key.ty = "str"
                   THEN [self EXCEPT !.public_key = FromHex(self.public_key)]
                   ELSE self
         IN  IF s1.crypto_type = ECDSA
             THEN IF ByteLen(s1.public_key) # 20 THEN [err |-> "ValueError", kp |-> s1]
                  ELSE [err |-> "", kp |-> s1]
             ELSE IF ByteLen(s1.public_key) # 32 THEN [err |-> "ValueError", kp |-> s1]
             ELSE IF Truthy(s1.ss58_address) THEN [err |-> "", kp |-> s1]
             ELSE IF s1.ss58_format.ty # "int" THEN [err |-> "TypeError", kp |-> s1]
             ELSE [err |-> "", kp |-> [s1 EXCEPT !.ss58_address =
                                           Ss58Encode(s1.public_key, s1.ss58_format)]]

\* the next step of set_params, unless an earlier one raised
ThenDecodeAddress(r) == IF r.err # "" THEN r ELSE DecodeAddress(r.kp)
ThenPrivateKeyStep(r, public_key) == IF r.err # "" THEN r ELSE PrivateKeyStep(r.kp, public_key)
ThenPublicKeyStep(r) == IF r.err # "" THEN r ELSE PublicKeyStep(r.kp)
\* lines 210-211
ThenSave(r, store, save) ==
    IF r.err # "" THEN [kp |-> r.kp, store |-> store, err |-> r.err]
    ELSE IF save THEN Save(r.kp, store, r.kp.path, r.kp.password)
    ELSE [kp |-> r.kp, store |-> store, err |-> ""]

\* lines 144-208: the key material of set_params; [err, kp]
BuildKey(self, a, gen) ==
    ThenPublicKeyStep(ThenPrivateKeyStep(ThenDecodeAddress(Provenance(self, a, gen)),
                                         a.public_key))

\* lines 144-211: set_params once the stored key, if any, was not loaded
BuildParams(self, store, a, gen) == ThenSave(BuildKey(self, a, gen), store, a.save)

\* the keyword arguments load passes to set_params: the state, load=False
ArgsOfState(d) ==
    [path |-> d.path, seed |-> None, ss58_address |-> d.ss58_address,
     public_key |-> d.public_key, private_key |-> d.private_key,
     ss58_format |-> d.ss58_format, seed_hex |-> d.seed_hex, mnemonic |-> d.mnemonic,
     password |-> d.password, uri |-> d.uri, derive_path |-> d.derive_path,
     crypto_type |-> d.crypto_type, refresh |-> FALSE, save |-> FALSE, load |-> FALSE]

\* lines 135-136
SetPath(self, a) == [self EXCEPT !.path = a.path, !.password = a.password]

\* load(path, password)
Load(self, store, path, password, gen) ==
    LET p == ResolveKeyPath(self, path)
    IN  IF ~KeyExists(store, p) THEN [kp |-> self, store |-> store, err |-> "AttributeError"]
        ELSE LET rec == store[p.v[1]]
             IN  IF rec.encrypted /\ rec.key # password
                 THEN [kp |-> self, store |-> store, err |-> "DecryptionError"]
                 ELSE BuildParams(SetPath(self, ArgsOfState(rec.data)), store,
                                  ArgsOfState(rec.data), gen)

\* lines 138-142: whether set_params returns the stored key
LoadsStored(store, a) == a.path # None /\ a.load /\ ~a.refresh /\ KeyExists(store, a.path)

\* set_params(a)
SetParams(self, store, a, gen) ==
    IF LoadsStored(store, a)
    THEN Load(SetPath(self, a), store, a.path, a.password, gen)
    ELSE BuildParams(SetPath(self, a), store, a, gen)


---------------------------------------------------------------------------
(* The class methods that return a Keypair.  cls(kwargs) runs __init__    *)
(* with its defaults: path = 'default', load = True, save = True.           *)

\* Keypair(a): __init__ on a new object
Init__(store, a, gen) == SetParams(EmptyDict, store, a, gen)

\* create_from_private_key(private_key, public_key, ss58_address, ss58_format, crypto_type)
CreateFromPrivateKey(store, private_key, public_key, ss58_format, crypto_type, gen) ==
    Init__(store, [DefaultArgs EXCEPT !.private_key = private_key, !.public_key = public_key,
                                       !.ss58_format = ss58_format,
                                       !.crypto_type = crypto_type], gen)

\* line 357: cls(cls_kwargs), or the error of lines 331-344
InitFromDict(store, r, gen) ==
    IF r.err # "" THEN [kp |-> EmptyDict, store |-> store, err |-> r.err]
    ELSE Init__(store, [DefaultArgs EXCEPT !.ss58_address = r.d.ss58_address,
                             !.public_key = r.d.public_key,
                             !.private_key = r.d.private_key,
                             !.ss58_format = r.d.ss58_format,
                             !.crypto_type = r.d.crypto_type,
                             !.seed_hex = r.d.seed_hex], gen)

\* create_from_seed(seed_hex, ss58_format, crypto_type)
CreateFromSeed(store, seed_hex, ss58_format, crypto_type, gen) ==
    InitFromDict(store, CreateFromSeedDict(seed_hex, ss58_format, crypto_type), gen)

\* keypair.mnemonic = mnemonic (line 308)
SetMnemonic(r, mnemonic) == IF r.err # "" THEN r ELSE [r EXCEPT !.kp.mnemonic = mnemonic]

\* create_from_mnemonic(mnemonic, ss58_format, crypto_type)
CreateFromMnemonic(store, mnemonic, ss58_format, crypto_type, gen) ==
    IF ~IsMnemonic(mnemonic) THEN [kp |-> EmptyDict, store |-> store, err |-> "ValueError"]
    ELSE IF crypto_type = ECDSA
    THEN SetMnemonic(CreateFromPrivateKey(store, EcdsaPrivFromMnemonic(mnemonic, <<>>), None,
                                          ss58_format, crypto_type, gen), mnemonic)
    ELSE SetMnemonic(CreateFromSeed(store, HexOf(MiniSecret(mnemonic)), ss58_format,
                                    crypto_type, gen), mnemonic)

\* the kwargs dictionary that line 405 passes as private_key
KwargsDict == [ty |-> "dict", v |-> <<"private_key", "ss58_format", "crypto_type">>]

\* lines 424-463: the path walked from the Keypair d that create_from_mnemonic returned
WalkFrom(d, path, ss58_format, crypto_type, gen) ==
    IF d.err # "" \/ path = <<>> THEN d
    ELSE IF crypto_type # SR
    THEN [kp |-> d.kp, store |-> d.store, err |-> "NotImplementedError"]
    ELSE IF d.kp.public_key.ty # "bytes" \/ d.kp.private_key.ty # "bytes"
    THEN [kp |-> d.kp, store |-> d.store, err |-> "TypeError"]
    ELSE Init__(d.store, [DefaultArgs EXCEPT !.public_key = Walk(d.kp.public_key, path),
                                             !.private_key = Walk(d.kp.private_key, path),
                                             !.ss58_format = ss58_format,
                                             !.crypto_type = crypto_type], gen)

\* lines 390-463 of create_from_uri, on the parsed suri
UriKeypair(store, parts, ss58_format, crypto_type, gen) ==
    IF crypto_type = ECDSA THEN CreateFromPrivateKey(store, KwargsDict, None, None, SR, gen)
    ELSE IF Truthy(parts.password)
    THEN [kp |-> EmptyDict, store |-> store, err |-> "NotImplementedError"]
    ELSE WalkFrom(CreateFromMnemonic(store, parts.phrase, ss58_format, crypto_type, gen),
                  parts.path, ss58_format, crypto_type, gen)

\* create_from_uri(suri, ss58_format, crypto_type)
CreateFromUri(store, suri, ss58_format, crypto_type, gen) ==
    IF ~SuriMatches(PrefixedSuri(suri))
    THEN [kp |-> EmptyDict, store |-> store, err |-> "AttributeError"]
    ELSE UriKeypair(store, SuriParts(PrefixedSuri(suri)), ss58_format, crypto_type, gen)

---------------------------------------------------------------------------
(* sign, verify, encrypt_message *)

True == [ty |-> "bool", v |-> <<"True">>]
False == [ty |-> "bool", v |-> <<"False">>]

\* lines 570-576: the data as bytes
CanNormalize(data) == data.ty = "str" /\ (Len(data.v) >= 1 /\ data.v[1] = "0x" => CanFromHex(data))
Normalize(data) ==
    IF Len(data.v) >= 1 /\ data.v[1] = "0x" THEN FromHex(data) ELSE Bytes(<<"utf8">> \o data.v)

IsKey(k, scheme, role) == k.ty = "bytes" /\ Len(k.v) >= 2 /\ k.v[1] = scheme /\ k.v[2] = role

\* the signature of the private key priv over the bytes data
Signature(priv, data) == Bytes(<<"sig">> \o priv.v \o <<"|">> \o data.v)

\* the backend's verify: sig is the signature over data of the private key of pub
BackendVerify(sig, data, pub) ==
    /\ sig.ty = "bytes" /\ pub.ty = "bytes" /\ Len(pub.v) >= 2
    /\ sig.v = <<"sig", pub.v[1], "priv">> \o SubSeq(pub.v, 3, Len(pub.v)) \o <<"|">> \o data.v

Wrapped(data) == Bytes(<<"<Bytes>">> \o data.v \o <<"</Bytes>">>)

\* the messages of the ConfigurationErrors of lines 579, 590, 684, 687, 707, 710
NoPrivateKeyToSign == "ConfigurationError: No private key set to create signatures"
CryptoTypeNotSupported == "ConfigurationError: Crypto type not supported"
NoPrivateKeyToEncrypt == "ConfigurationError: No private key set to encrypt"
NoPrivateKeyToDecrypt == "ConfigurationError: No private key set to decrypt"
OnlyEd25519 == "ConfigurationError: Only ed25519 keypair type supported"

\* sign with the private-key check of lines 578-579 ahead of the data's conversion
SignKeyCheckFirst(self, data, crypto_type) ==
    IF ~Truthy(self.private_key) THEN [err |-> NoPrivateKeyToSign, ret |-> None]
    ELSE IF ~CanNormalize(data) THEN [err |-> "ValueError", ret |-> None]
    ELSE IF crypto_type \notin CryptoTypes THEN [err |-> CryptoTypeNotSupported, ret |-> None]
    ELSE IF self.private_key.ty # "bytes" \/ (crypto_type = SR /\ self.public_key.ty # "bytes")
    THEN [err |-> "TypeError", ret |-> None]
    ELSE IF ~IsKey(self.private_key, crypto_type.v[1], "priv")
    THEN [err |-> "ValueError", ret |-> None]
    ELSE [err |-> "", ret |-> Signature(self.private_key, Normalize(data))]

\* sign(data, crypto_type); [err, ret]
Sign(self, data, crypto_type) ==
    IF ~CanNormalize(data) THEN [err |-> "ValueError", ret |-> None]
    ELSE IF ~Truthy(self.private_key) THEN [err |-> NoPrivateKeyToSign, ret |-> None]
    ELSE IF crypto_type \notin CryptoTypes THEN [err |-> CryptoTypeNotSupported, ret |-> None]
    ELSE IF self.private_key.ty # "bytes" \/ (crypto_type = SR /\ self.public_key.ty # "bytes")
    THEN [err |-> "TypeError", ret |-> None]
    ELSE IF ~IsKey(self.private_key, crypto_type.v[1], "priv")
    THEN [err |-> "ValueError", ret |-> None]
    ELSE [err |-> "", ret |-> Signature(self.private_key, Normalize(data))]

\* a signature the backends accept as one: bytes of a signature's length
IsSignature(sig) == sig.ty = "bytes" /\ Len(sig.v) >= 1 /\ sig.v[1] = "sig"

\* crypto_verify_fn(signature, data, self.public_key) for the backend of crypto_type:
\* a key of another scheme verifies nothing
SchemeVerify(crypto_type, sig, data, pub) ==
    pub.v[1] = crypto_type.v[1] /\ BackendVerify(sig, data, pub)

\* verify without its second attempt
TriedOnce(crypto_type, sig, d, pub) == <<d>>

\* lines 660-666: the data forms handed to the backend, in order
Tried(crypto_type, sig, d, pub) ==
    IF SchemeVerify(crypto_type, sig, d, pub) THEN <<d>> ELSE <<d, Wrapped(d)>>

\* lines 660-666
Verified(crypto_type, sig, d, pub) ==
    [err |-> "",
     ret |-> IF SchemeVerify(crypto_type, sig, Tried(crypto_type, sig, d, pub)[
                                 Len(Tried(crypto_type, sig, d, pub))], pub)
             THEN True ELSE False,
     tried |-> Tried(crypto_type, sig, d, pub)]

\* lines 627-658, on the signature as bytes
VerifyBytes(self, data, sig, public_key, crypto_type) ==
    IF public_key = None /\ self.public_key.ty # "bytes"
    THEN [err |-> "AttributeError", ret |-> None, tried |-> <<>>]
    ELSE IF ~CanNormalize(data) THEN [err |-> "ValueError", ret |-> None, tried |-> <<>>]
    ELSE IF sig.ty # "bytes" THEN [err |-> "TypeError", ret |-> None, tried |-> <<>>]
    ELSE IF crypto_type \notin CryptoTypes
    THEN [err |-> CryptoTypeNotSupported, ret |-> None, tried |-> <<>>]
    ELSE IF self.public_key.ty # "bytes" THEN [err |-> "TypeError", ret |-> None, tried |-> <<>>]
    ELSE IF ~IsSignature(sig) THEN [err |-> "ValueError", ret |-> None, tried |-> <<>>]
    ELSE Verified(crypto_type, sig, Normalize(data), self.public_key)

\* verify(data, signature, public_key, crypto_type); [err, ret, tried]
Verify(self, data, signature, public_key, crypto_type) ==
    IF signature.ty = "str" /\ ~CanFromHex(signature)
    THEN [err |-> "ValueError", ret |-> None, tried |-> <<>>]
    ELSE VerifyBytes(self, data, IF signature.ty = "str" THEN FromHex(signature) ELSE signature,
                     public_key, crypto_type)

\* lines 619-626: verify(record) with signature omitted takes data, signature and
\* public_key out of the record
VerifyRecord(self, record, crypto_type) ==
    Verify(self, record.data, record.signature, record.public_key, crypto_type)

Nonces == {"n1", "n2"}
NonceVal(n) == Bytes(<<"nonce", n>>)

\* encrypt_message with the scheme check of lines 686-687 ahead of the private-key check
EncryptMessageSchemeFirst(self, message, recipient, used) ==
    IF self.crypto_type # ED THEN [err |-> OnlyEd25519, ret |-> None]
    ELSE IF ~Truthy(self.private_key) THEN [err |-> NoPrivateKeyToEncrypt, ret |-> None]
    ELSE IF recipient.ty # "bytes" \/ self.private_key.ty # "bytes"
            \/ self.public_key.ty # "bytes"
    THEN [err |-> "TypeError", ret |-> None]
    ELSE [err |-> "", ret |-> Bytes(<<"box">> \o used.v \o self.private_key.v
                                     \o recipient.v \o message.v)]

\* encrypt_message(message, recipient_public_key, nonce); used is the nonce's value
EncryptMessage(self, message, recipient, used) ==
    IF ~Truthy(self.private_key) THEN [err |-> NoPrivateKeyToEncrypt, ret |-> None]
    ELSE IF self.crypto_type # ED THEN [err |-> OnlyEd25519, ret |-> None]
    ELSE IF recipient.ty # "bytes" \/ self.private_key.ty # "bytes"
            \/ self.public_key.ty # "bytes"
    THEN [err |-> "TypeError", ret |-> None]
    ELSE [err |-> "", ret |-> Bytes(<<"box">> \o used.v \o self.private_key.v
                                     \o recipient.v \o message.v)]

\* the private key that belongs to the public key pub
PrivOf(pub) == Bytes(<<pub.v[1], "priv">> \o SubSeq(pub.v, 3, Len(pub.v)))

\* the start of the box the holder of sender's key makes for this key under the nonce
\* that encrypted carries
BoxHead(self, encrypted, sender) ==
    <<"box">> \o SubSeq(encrypted.v, 2, 3) \o PrivOf(sender).v \o self.public_key.v

\* nacl.public.Box(recipient, sender).decrypt succeeds on such a box only
Opens(self, encrypted, sender) ==
    /\ Len(encrypted.v) >= 3
    /\ Len(encrypted.v) >= Len(BoxHead(self, encrypted, sender))
    /\ SubSeq(encrypted.v, 1, Len(BoxHead(self, encrypted, sender)))
           = BoxHead(self, encrypted, sender)

\* decrypt_message(encrypted_message_with_nonce, sender_public_key); [err, ret]
DecryptMessage(self, encrypted, sender) ==
    IF ~Truthy(self.private_key) THEN [err |-> NoPrivateKeyToDecrypt, ret |-> None]
    ELSE IF self.crypto_type # ED THEN [err |-> OnlyEd25519, ret |-> None]
    ELSE IF sender.ty # "bytes" \/ self.private_key.ty # "bytes"
            \/ self.public_key.ty # "bytes" \/ encrypted.ty # "bytes"
    THEN [err |-> "TypeError", ret |-> None]
    ELSE IF ~Opens(self, encrypted, sender) THEN [err |-> "CryptoError", ret |-> None]
    ELSE [err |-> "", ret |-> Bytes(SubSeq(encrypted.v,
                                           Len(BoxHead(self, encrypted, sender)) + 1,
                                           Len(encrypted.v)))]

---------------------------------------------------------------------------
(* export_to_encrypted_json, create_from_encrypted_json *)

\* the JSON of lines 546-553: the pair encoded under the passphrase, its content tag and
\* the address
JsonData(self, passphrase) ==
    [ty |-> "dict", v |-> <<"encoded", "encoding", "address", "meta">>,
     public_key |-> self.public_key, private_key |-> self.private_key,
     passphrase |-> passphrase, content |-> SR, address |-> self.ss58_address]

\* export_to_encrypted_json(passphrase); [err, ret]
ExportToEncryptedJson(self, passphrase) ==
    IF self.crypto_type # SR THEN [err |-> "NotImplementedError", ret |-> None]
    ELSE IF self.private_key.ty # "bytes" \/ self.public_key.ty # "bytes"
    THEN [err |-> "TypeError", ret |-> None]
    ELSE IF ByteLen(self.private_key) # 64 THEN [err |-> "ValueError", ret |-> None]
    ELSE [err |-> "", ret |-> JsonData(self, passphrase)]

\* get_ss58_format(address)
GetSs58Format(address) == [ty |-> "int", v |-> <<address.v[2]>>]

\* lines 510-521 of create_from_encrypted_json, on the decoded pair
FromDecodedPair(store, json_data, ss58_format, gen) ==
    IF json_data.content \notin {SR, ED}
    THEN [kp |-> EmptyDict, store |-> store, err |-> "NotImplementedError"]
    ELSE CreateFromPrivateKey(store, json_data.private_key, json_data.public_key,
                              IF ss58_format = None /\ IsSs58(json_data.address)
                              THEN GetSs58Format(json_data.address) ELSE ss58_format,
                              json_data.content, gen)

\* create_from_encrypted_json(json_data, passphrase, ss58_format); [kp, store, err]
CreateFromEncryptedJson(store, json_data, passphrase, ss58_format, gen) ==
    IF json_data.passphrase # passphrase
    THEN [kp |-> EmptyDict, store |-> store, err |-> "CryptoError"]
    ELSE FromDecodedPair(store, json_data, ss58_format, gen)


---------------------------------------------------------------------------
(* Inputs *)

MaxSteps == 3

Objs == {1, 2}

SeedBytes(n) == Bytes(<<"seed", n>>)
S1Hex == HexOf(SeedBytes("s1"))
S2Hex == HexOf(SeedBytes("s2"))
Bro == Str(<<"bro">>)
M1 == Str(<<"m1">>)
Alice == Str(<<"//", "Alice">>)
M1Alice == Str(<<"m1", "//", "Alice">>)
Pw == Str(<<"pw">>)

\* what generate_mnemonic() may return
GenMnemonics == {Str(<<"g1">>), Str(<<"g2">>)}

Msgs == {Str(<<"test message">>)}
Passwords == {None, Pw}

SeedArgs(h) == [DefaultArgs EXCEPT !.seed_hex = h]

\* the constructor calls of the life-cycle specification
LifeArgs ==
    {DefaultArgs,
     SeedArgs(S1Hex),
     SeedArgs(S2Hex),
     [SeedArgs(S2Hex) EXCEPT !.refresh = TRUE],
     [DefaultArgs EXCEPT !.seed = Bro, !.path = PathVal("bro"), !.load = FALSE],
     [DefaultArgs EXCEPT !.uri = Alice, !.path = PathVal("bro")],
     [DefaultArgs EXCEPT !.private_key = EdPriv(SeedBytes("s1")),
                         !.public_key = EdPub(SeedBytes("s1")),
                         !.ss58_format = Int42, !.crypto_type = ED,
                         !.path = PathVal("bro"), !.load = FALSE, !.save = FALSE],
     [DefaultArgs EXCEPT !.public_key = SrPub(SeedBytes("s1")), !.ss58_format = Int42,
                         !.path = PathVal("bro"), !.load = FALSE, !.save = FALSE]}

\* the constructor calls of the construction specification, without a save
WideArgs ==
    [path : {PathVal("default")},
     seed : {None, Bro, Str(<<>>)},
     seed_hex : {None, S1Hex, SeedBytes("s2")},
     mnemonic : {None, M1},
     uri : {None, Alice, M1Alice, M1},
     private_key : {None, SrPriv(SeedBytes("s1")), HexOf(EdPriv(SeedBytes("s1"))),
                    EcdsaPrivFromMnemonic(M1, <<>>)},
     public_key : {None, SrPub(SeedBytes("s2")), HexOf(EdPub(SeedBytes("s1")))},
     ss58_address : {None, Ss58Encode(SrPub(SeedBytes("s1")), Int42)},
     ss58_format : {None, Int42},
     password : {None},
     derive_path : {None},
     crypto_type : CryptoTypes,
     refresh : {FALSE}, save : {FALSE}, load : {TRUE}]

\* the constructor calls of the two threads
ThreadArgs == {SeedArgs(S1Hex), SeedArgs(S2Hex), SeedArgs(SeedBytes("s3")),
               [SeedArgs(S1Hex) EXCEPT !.path = PathVal("bro")],
               [DefaultArgs EXCEPT !.seed = Bro]}

---------------------------------------------------------------------------
(* State *)

EmptyStorage == [p \in Paths |-> NoRecord]

NoOp == [op |-> "none", obj |-> 0, err |-> "", ret |-> None, before |-> EmptyDict]

InitCommon(nonces) ==
    /\ kp = [i \in Objs |-> EmptyDict]
    /\ live = [i \in Objs |-> FALSE]
    /\ made = [i \in Objs |-> [how |-> "none", a |-> DefaultArgs]]
    /\ storage = EmptyStorage
    /\ defaultNonce \in {NonceVal(n) : n \in nonces}
    /\ implicitNonces = <<>>
    /\ last = NoOp
    /\ steps = 0

Init ==
    /\ InitCommon(Nonces)
    /\ pc = [t \in Objs |-> "idle"]
    /\ targs = [t \in Objs |-> DefaultArgs]

\* the object a successful constructor call returns is bound to i; a failed call
\* binds nothing
Bind(i, a, r, how, op) ==
    /\ storage' = r.store
    /\ last' = [op |-> op, obj |-> i, err |-> r.err, ret |-> None, before |-> kp[i]]
    /\ IF r.err = ""
       THEN /\ kp' = [kp EXCEPT ![i] = r.kp]
            /\ live' = [live EXCEPT ![i] = TRUE]
            /\ made' = [made EXCEPT ![i] = [how |-> how, a |-> a]]
       ELSE UNCHANGED <<kp, live, made>>

Step == steps < MaxSteps /\ steps' = steps + 1

\* x = Keypair(a)
Construct(i, a) ==
    /\ Step
    /\ \E gen \in GenMnemonics :
         Bind(i, a, Init__(storage, a, gen),
              IF LoadsStored(storage, a) THEN "loaded" ELSE "built", "init")
    /\ UNCHANGED <<defaultNonce, implicitNonces, pc, targs>>

\* x = Keypair.create_from_mnemonic(mnemonic, crypto_type=crypto_type)
CreateFromMnemonicOp(i, mnemonic, crypto_type) ==
    /\ Step
    /\ \E gen \in GenMnemonics :
         Bind(i, [DefaultArgs EXCEPT !.mnemonic = mnemonic, !.crypto_type = crypto_type],
              CreateFromMnemonic(storage, mnemonic, Int42, crypto_type, gen),
              "classmethod", "create_from_mnemonic")
    /\ UNCHANGED <<defaultNonce, implicitNonces, pc, targs>>

\* a method of object i ran and left r.kp, r.store
Ran(i, r, op, ret, how) ==
    /\ kp' = [kp EXCEPT ![i] = r.kp]
    /\ storage' = r.store
    /\ made' = [made EXCEPT ![i].how = how]
    /\ last' = [op |-> op, obj |-> i, err |-> r.err, ret |-> ret, before |-> kp[i]]
    /\ UNCHANGED <<live, defaultNonce, implicitNonces, pc, targs>>

\* x.state_dict(password)
StateDictOp(i, password) ==
    /\ Step /\ live[i]
    /\ Ran(i, [kp |-> StateDict(kp[i], password).self, store |-> storage, err |-> ""],
           "state_dict", None, "used")

\* x.save(path, password)
SaveOp(i, path, password) ==
    /\ Step /\ live[i]
    /\ Ran(i, Save(kp[i], storage, path, password), "save", None, "used")

\* x.load(path, password)
LoadOp(i, path, password) ==
    /\ Step /\ live[i]
    /\ \E gen \in GenMnemonics :
         Ran(i, Load(kp[i], storage, path, password, gen), "load", None, "reloaded")

\* y.load(path, password) after x.save(path, password) left s
LoadAfterSave(s, self, path, password, gen) ==
    IF s.err # "" THEN s ELSE Load(self, s.store, path, password, gen)

SaveLoadDone(i, j, mid, s, r) ==
    /\ kp' = IF s.err # "" THEN mid ELSE [mid EXCEPT ![j] = r.kp]
    /\ storage' = r.store
    /\ made' = [made EXCEPT ![i].how = "used", ![j].how = "reloaded"]
    /\ last' = [op |-> "save_load", obj |-> j, err |-> r.err, ret |-> None,
                before |-> kp[i]]

SaveLoadFrom(i, j, s, path, password, gen) ==
    SaveLoadDone(i, j, [kp EXCEPT ![i] = s.kp], s,
                 LoadAfterSave(s, IF j = i THEN s.kp ELSE kp[j], path, password, gen))

\* x.save(path, password) and then y.load(path, password)
SaveLoadOp(i, j, path, password) ==
    /\ Step /\ live[i] /\ live[j]
    /\ \E gen \in GenMnemonics :
         SaveLoadFrom(i, j, Save(kp[i], storage, path, password), path, password, gen)
    /\ UNCHANGED <<live, defaultNonce, implicitNonces, pc, targs>>

\* Keypair.delete(path)
DeleteOp(p) ==
    /\ Step /\ storage[p].present
    /\ storage' = [storage EXCEPT ![p] = NoRecord]
    /\ last' = [op |-> "delete", obj |-> 0, err |-> "", ret |-> None, before |-> EmptyDict]
    /\ UNCHANGED <<kp, live, made, defaultNonce, implicitNonces, pc, targs>>

\* self.verify(m, sg) where sg is what self.sign(m) returned or raised
VerifySigned(self, m, sg) == IF sg.err # "" THEN sg ELSE Verify(self, m, sg.ret, None, SR)

Returned(i, op, r) ==
    last' = [op |-> op, obj |-> i, err |-> r.err, ret |-> r.ret, before |-> kp[i]]

\* x.verify(m, x.sign(m))
SignVerifyOp(i, m) ==
    /\ Step /\ live[i]
    /\ Returned(i, "sign_verify", VerifySigned(kp[i], m, Sign(kp[i], m, SR)))
    /\ UNCHANGED <<kp, live, made, storage, defaultNonce, implicitNonces, pc, targs>>

Encrypted(i, r, explicit, used) ==
    /\ Returned(i, "encrypt", r)
    /\ implicitNonces' = IF r.err = "" /\ ~explicit THEN Append(implicitNonces, used)
                         ELSE implicitNonces

\* the value of encrypt_message's nonce parameter
NonceUsed(explicit, n) == IF explicit THEN NonceVal(n) ELSE defaultNonce

\* x.encrypt_message(m, recipient) with the nonce omitted (explicit = FALSE) or given
EncryptOp(i, m, recipient, explicit, n) ==
    /\ Step /\ live[i]
    /\ Encrypted(i, EncryptMessage(kp[i], m, recipient, NonceUsed(explicit, n)), explicit,
                 NonceUsed(explicit, n))
    /\ UNCHANGED <<kp, live, made, storage, defaultNonce, pc, targs>>

Next ==
    \/ \E i \in Objs, a \in LifeArgs : Construct(i, a)
    \/ \E i \in Objs, ct \in CryptoTypes : CreateFromMnemonicOp(i, M1, ct)
    \/ \E i \in Objs, pw \in Passwords : StateDictOp(i, pw)
    \/ \E i \in Objs, p \in Paths, pw \in Passwords : SaveOp(i, PathVal(p), pw)
    \/ \E i \in Objs, p \in Paths, pw \in Passwords : LoadOp(i, PathVal(p), pw)
    \/ \E i, j \in Objs, p \in Paths, pw \in Passwords : SaveLoadOp(i, j, PathVal(p), pw)
    \/ \E p \in Paths : DeleteOp(p)
    \/ \E i \in Objs, m \in Msgs : SignVerifyOp(i, m)
    \/ \E i \in Objs, m \in Msgs, explicit \in BOOLEAN, n \in Nonces :
         EncryptOp(i, m, EdPub(SeedBytes("s2")), explicit, n)

Spec == Init /\ [][Next]_vars


---------------------------------------------------------------------------
(* Construction alone: one call, its arguments drawn when the run starts *)

OnlyGiven(a, f) ==
    /\ a[f] # None
    /\ \A g \in {"seed", "seed_hex", "mnemonic", "uri", "private_key", "public_key",
                 "ss58_address"} \ {f} : a[g] = None

InitBuild ==
    /\ InitCommon({"n1"})
    /\ pc = [t \in Objs |-> IF t = 1 THEN "start" ELSE "idle"]
    /\ \E a \in WideArgs : targs = [t \in Objs |-> IF t = 1 THEN a ELSE DefaultArgs]

\* the call returned or raised
Called(r, how, op) ==
    /\ pc[1] = "start"
    /\ Bind(1, targs[1], r, how, op)
    /\ pc' = [pc EXCEPT ![1] = IF r.err = "" THEN "done" ELSE "failed"]
    /\ UNCHANGED <<defaultNonce, implicitNonces, targs, steps>>

\* Keypair(a)
CallInit ==
    \E gen \in GenMnemonics :
        Called(Init__(storage, targs[1], gen),
               IF LoadsStored(storage, targs[1]) THEN "loaded" ELSE "built", "init")

\* Keypair.create_from_seed(seed_hex, crypto_type=crypto_type)
CallCreateFromSeed ==
    /\ OnlyGiven(targs[1], "seed_hex")
    /\ \E gen \in GenMnemonics :
        Called(CreateFromSeed(storage, targs[1].seed_hex, Int42, targs[1].crypto_type, gen),
               "classmethod", "create_from_seed")

\* Keypair.create_from_mnemonic(mnemonic, crypto_type=crypto_type)
CallCreateFromMnemonic ==
    /\ OnlyGiven(targs[1], "mnemonic")
    /\ \E gen \in GenMnemonics :
        Called(CreateFromMnemonic(storage, targs[1].mnemonic, Int42, targs[1].crypto_type,
                                  gen),
               "classmethod", "create_from_mnemonic")

\* Keypair.create_from_uri(uri, crypto_type=crypto_type)
CallCreateFromUri ==
    /\ OnlyGiven(targs[1], "uri")
    /\ \E gen \in GenMnemonics :
        Called(CreateFromUri(storage, targs[1].uri.v, Int42, targs[1].crypto_type, gen),
               "classmethod", "create_from_uri")

NextBuild == CallInit \/ CallCreateFromSeed \/ CallCreateFromMnemonic \/ CallCreateFromUri

SpecBuild == InitBuild /\ [][NextBuild]_vars

---------------------------------------------------------------------------
(* Two threads, each running one constructor call; a step is the code       *)
(* between two accesses of the key storage                                  *)

InitThreads ==
    /\ InitCommon({"n1"})
    /\ pc = [t \in Objs |-> "start"]
    /\ targs \in [Objs -> ThreadArgs]

ThreadStep(t, op, err) ==
    /\ last' = [op |-> op, obj |-> t, err |-> err, ret |-> None, before |-> kp[t]]
    /\ UNCHANGED <<defaultNonce, implicitNonces, targs, steps>>

\* lines 135-142: key_exists(path)
TStart(t) ==
    /\ pc[t] = "start"
    /\ kp' = [kp EXCEPT ![t] = SetPath(EmptyDict, targs[t])]
    /\ pc' = [pc EXCEPT ![t] = IF LoadsStored(storage, targs[t]) THEN "load" ELSE "build"]
    /\ ThreadStep(t, "key_exists", "")
    /\ UNCHANGED <<live, made, storage>>

TLoaded(t, r) ==
    /\ kp' = [kp EXCEPT ![t] = r.kp]
    /\ live' = [live EXCEPT ![t] = r.err = ""]
    /\ made' = [made EXCEPT ![t] = [how |-> "loaded", a |-> targs[t]]]
    /\ pc' = [pc EXCEPT ![t] = IF r.err = "" THEN "done" ELSE "failed"]
    /\ ThreadStep(t, "load", r.err)
    /\ UNCHANGED storage

\* line 140: load(path, password), which reads the storage
TLoad(t) ==
    /\ pc[t] = "load"
    /\ \E gen \in GenMnemonics :
         TLoaded(t, Load(kp[t], storage, targs[t].path, targs[t].password, gen))

TBuilt(t, r) ==
    /\ kp' = [kp EXCEPT ![t] = r.kp]
    /\ live' = [live EXCEPT ![t] = r.err = "" /\ ~targs[t].save]
    /\ made' = [made EXCEPT ![t] = [how |-> "built", a |-> targs[t]]]
    /\ pc' = [pc EXCEPT ![t] = IF r.err # "" THEN "failed"
                               ELSE IF targs[t].save THEN "save" ELSE "done"]
    /\ ThreadStep(t, "build", r.err)
    /\ UNCHANGED storage

\* lines 144-208, which touch the object alone
TBuild(t) ==
    /\ pc[t] = "build"
    /\ \E gen \in GenMnemonics : TBuilt(t, BuildKey(kp[t], targs[t], gen))

TSaved(t, r) ==
    /\ kp' = [kp EXCEPT ![t] = r.kp]
    /\ storage' = r.store
    /\ live' = [live EXCEPT ![t] = r.err = ""]
    /\ pc' = [pc EXCEPT ![t] = IF r.err = "" THEN "done" ELSE "failed"]
    /\ ThreadStep(t, "save", r.err)
    /\ UNCHANGED made

\* lines 210-211: save(path, password), which writes the storage
TSave(t) ==
    /\ pc[t] = "save"
    /\ TSaved(t, Save(kp[t], storage, kp[t].path, kp[t].password))

NextThreads == \E t \in Objs : TStart(t) \/ TLoad(t) \/ TBuild(t) \/ TSave(t)

SpecThreads == InitThreads /\ [][NextThreads]_vars


---------------------------------------------------------------------------
(* Use: a Keypair is constructed, after another one was or was not, and one *)
(* of its methods is called                                                 *)

RawArgs == [DefaultArgs EXCEPT !.ss58_format = Int42, !.path = PathVal("bro"),
                               !.load = FALSE, !.save = FALSE]

\* the constructor calls of the use specification
UseArgs ==
    {DefaultArgs,
     SeedArgs(S1Hex),
     [RawArgs EXCEPT !.private_key = SrPriv(SeedBytes("s1")),
                     !.public_key = SrPub(SeedBytes("s1"))],
     [RawArgs EXCEPT !.private_key = EdPriv(SeedBytes("s1")),
                     !.public_key = EdPub(SeedBytes("s1")), !.crypto_type = ED],
     [RawArgs EXCEPT !.private_key = EcdsaPrivFromMnemonic(M1, <<>>), !.crypto_type = ECDSA],
     [RawArgs EXCEPT !.public_key = SrPub(SeedBytes("s1"))],
     [RawArgs EXCEPT !.public_key = EdPub(SeedBytes("s1")), !.crypto_type = ED],
     [RawArgs EXCEPT !.ss58_address = Ss58Encode(SrPub(SeedBytes("s1")), Int42)]}

\* data for sign and verify: a text, hex text, and a '0x' text that is not hex
HexMsg == Str(<<"0x", "hex", "msg">>)
BadHexMsg == Str(<<"0x", "zz">>)
SignData == Msgs \cup {HexMsg, BadHexMsg}

\* crypto_type arguments of sign and verify
SchemeArgs == CryptoTypes \cup {Str(<<"rsa">>)}

\* signatures handed to verify for the key pub and the data d: by the holder of the key
\* over d, over d wrapped once and twice, and over other data; bytes of another length;
\* hex text; and a value that is no signature at all
ShortSig == Bytes(<<"7 bytes">>)
SigsFor(pub, d) ==
    {Signature(PrivOf(pub), d), Signature(PrivOf(pub), Wrapped(d)),
     Signature(PrivOf(pub), Wrapped(Wrapped(d))), Signature(PrivOf(pub), Bytes(<<"other">>)),
     ShortSig, HexOf(Signature(PrivOf(pub), d)), Int42}

Passphrases == {Str(<<"p">>), Str(<<"q">>)}

InitUse ==
    /\ InitCommon({"n1"})
    /\ pc = [t \in Objs |-> IF t = 1 THEN "start" ELSE "idle"]
    /\ \E a \in UseArgs : targs = [t \in Objs |-> IF t = 1 THEN a ELSE SeedArgs(S2Hex)]

\* another Keypair(seed_hex=s2) was constructed before
PriorConstruct ==
    /\ pc[1] = "start" /\ pc[2] = "idle"
    /\ \E gen \in GenMnemonics :
         Bind(2, targs[2], Init__(storage, targs[2], gen), "built", "init")
    /\ pc' = [pc EXCEPT ![2] = "done"]
    /\ UNCHANGED <<defaultNonce, implicitNonces, targs, steps>>

UseBound(r) ==
    /\ Bind(1, targs[1], r, IF LoadsStored(storage, targs[1]) THEN "loaded" ELSE "built",
            "init")
    /\ pc' = [pc EXCEPT ![1] = IF r.err = "" THEN "ready" ELSE "failed"]

\* x = Keypair(a)
UseConstruct ==
    /\ pc[1] = "start"
    /\ \E gen \in GenMnemonics : UseBound(Init__(storage, targs[1], gen))
    /\ UNCHANGED <<defaultNonce, implicitNonces, targs, steps>>

\* a method of x returned or raised r; the methods assign no field of x
Used(op, r, args) ==
    /\ pc[1] = "ready"
    /\ last' = [op |-> op, obj |-> 1, err |-> r.err, ret |-> r.ret, before |-> kp[1],
                args |-> args, tried |-> IF op = "verify" THEN r.tried ELSE <<>>]
    /\ pc' = [pc EXCEPT ![1] = "used"]
    /\ UNCHANGED <<kp, live, made, defaultNonce, implicitNonces, targs, steps>>

\* x.sign(data, crypto_type)
UseSign(data, crypto_type) ==
    /\ Used("sign", Sign(kp[1], data, crypto_type),
            [data |-> data, crypto_type |-> crypto_type])
    /\ UNCHANGED storage

\* x.verify(data, signature, crypto_type=crypto_type)
UseVerify(data, signature, crypto_type) ==
    /\ Used("verify", Verify(kp[1], data, signature, None, crypto_type),
            [data |-> data, signature |-> signature, crypto_type |-> crypto_type])
    /\ UNCHANGED storage

\* x.encrypt_message(message, recipient_public_key)
UseEncrypt(message, recipient) ==
    /\ Used("encrypt", EncryptMessage(kp[1], message, recipient, defaultNonce),
            [message |-> message, recipient |-> recipient])
    /\ UNCHANGED storage

\* the box the holder of sender's key made of message for the key pub
BoxFor(pub, sender, message) ==
    Bytes(<<"box">> \o defaultNonce.v \o PrivOf(sender).v \o pub.v \o message.v)

\* x.decrypt_message(encrypted_message_with_nonce, sender_public_key)
UseDecrypt(encrypted, sender) ==
    /\ Used("decrypt", DecryptMessage(kp[1], encrypted, sender),
            [encrypted |-> encrypted, sender |-> sender])
    /\ UNCHANGED storage

\* create_from_encrypted_json(exported, passphrase), exported being what
\* export_to_encrypted_json returned or raised
ImportExported(store, exported, passphrase, gen) ==
    IF exported.err # "" THEN [kp |-> EmptyDict, store |-> store, err |-> exported.err]
    ELSE CreateFromEncryptedJson(store, exported.ret, passphrase, None, gen)

Imported(r, args) ==
    /\ Used("export_import", [err |-> r.err, ret |-> r.kp], args)
    /\ storage' = r.store

\* Keypair.create_from_encrypted_json(x.export_to_encrypted_json(p), q)
UseExportImport(p, q) ==
    \E gen \in GenMnemonics :
        Imported(ImportExported(storage, ExportToEncryptedJson(kp[1], p), q, gen),
                 [exported |-> ExportToEncryptedJson(kp[1], p).err, p |-> p, q |-> q])

\* the public key of another key holder, of the scheme crypto_type
OtherPub(crypto_type) ==
    IF crypto_type = ED THEN EdPub(SeedBytes("s2")) ELSE SrPub(SeedBytes("s2"))

\* x.verify(data, signature, public_key, crypto_type), or x.verify(record, crypto_type)
\* with the three in a record
UseVerifyWith(data, signature, public_key, crypto_type, record) ==
    /\ Used("verify_with",
            IF record
            THEN VerifyRecord(kp[1], [data |-> data, signature |-> signature,
                                      public_key |-> public_key], crypto_type)
            ELSE Verify(kp[1], data, signature, public_key, crypto_type),
            [data |-> data, signature |-> signature, public_key |-> public_key,
             crypto_type |-> crypto_type, record |-> record])
    /\ UNCHANGED storage

NextUse ==
    \/ PriorConstruct
    \/ UseConstruct
    \/ \E data \in SignData, ct \in SchemeArgs : UseSign(data, ct)
    \/ /\ pc[1] = "ready"
       /\ \E data \in SignData, ct \in SchemeArgs :
         \E sig \in SigsFor(AsBytes(kp[1].public_key),
                            IF CanNormalize(data) THEN Normalize(data) ELSE Bytes(<<>>)) :
            UseVerify(data, sig, ct)
    \/ /\ pc[1] = "ready"
       /\ \E data \in Msgs, ct \in {SR, ED}, record \in BOOLEAN :
         \E sig \in {Signature(PrivOf(OtherPub(ct)), Normalize(data)),
                     Signature(PrivOf(AsBytes(kp[1].public_key)), Normalize(data))},
            pk \in {OtherPub(ct), HexOf(OtherPub(ct))} :
            UseVerifyWith(data, sig, pk, ct, record)
    \/ \E m \in Msgs : UseEncrypt(m, EdPub(SeedBytes("s2")))
    \/ /\ pc[1] = "ready"
       /\ \E m \in Msgs, sender \in {EdPub(SeedBytes("s2")), EdPub(SeedBytes("s3"))} :
         \E enc \in {BoxFor(AsBytes(kp[1].public_key), EdPub(SeedBytes("s2")), m),
                     Bytes(<<"box", "garbled">>)} :
            UseDecrypt(enc, sender)
    \/ \E p, q \in Passphrases : UseExportImport(p, q)

SpecUse == InitUse /\ [][NextUse]_vars

---------------------------------------------------------------------------
(* Properties *)

SameIdentity(a, b) ==
    /\ AsBytes(a.public_key) = AsBytes(b.public_key)
    /\ a.ss58_address = b.ss58_address

SameKeypair(a, b) ==
    /\ SameIdentity(a, b)
    /\ AsBytes(a.private_key) = AsBytes(b.private_key)
    /\ a.crypto_type = b.crypto_type

\* object i is as its constructor call left it, but for save / state_dict
AsConstructed(i) == live[i] /\ made[i].how \in {"built", "loaded", "used"}

\* C1: any two objects constructed by Keypair(seed_hex=s) with the same s hold the same
\* public key and the same address, whatever was constructed, saved, loaded or deleted
\* before or between the two calls.
C1_SameSeedSameKey ==
    \A i, j \in Objs :
        ( /\ AsConstructed(i) /\ AsConstructed(j)
          /\ made[i].a = made[j].a
          /\ made[i].a \in {SeedArgs(S1Hex), SeedArgs(S2Hex)} )
        => SameIdentity(kp[i], kp[j])

\* the public key the backend of scheme T gives for the call's seed or mnemonic
SchemePub(T, a) ==
    IF a.seed_hex # None
    THEN (IF T = ED THEN EdPub(AsBytes(a.seed_hex)) ELSE SrPub(AsBytes(a.seed_hex)))
    ELSE IF T = ECDSA THEN AsBytes(EcdsaAddress(EcdsaPrivFromMnemonic(a.mnemonic, <<>>)))
    ELSE IF T = ED THEN EdPub(MiniSecret(a.mnemonic))
    ELSE SrPub(MiniSecret(a.mnemonic))

\* C2: a Keypair built from a seed_hex or a mnemonic with crypto_type = T, by the
\* constructor or by create_from_seed / create_from_mnemonic, ends with crypto_type = T
\* and with the public key of T's backend.
C2_SchemeSelectsBackend ==
    ( /\ pc[1] = "done"
      /\ last.op \in {"init", "create_from_seed", "create_from_mnemonic"}
      /\ (OnlyGiven(targs[1], "seed_hex") \/ OnlyGiven(targs[1], "mnemonic")) )
    => /\ kp[1].crypto_type = targs[1].crypto_type
       /\ AsBytes(kp[1].public_key) = SchemePub(targs[1].crypto_type, targs[1])

ProvenanceFields == {"seed", "seed_hex", "mnemonic", "uri", "private_key", "public_key",
                     "ss58_address"}

Only(a, keep) ==
    [f \in DOMAIN a |-> IF f \in ProvenanceFields \ keep THEN None ELSE a[f]]

\* the call's arguments with nothing but the first applicable provenance
Winner(a) ==
    IF Truthy(a.seed) THEN Only(a, {"seed"})
    ELSE IF a.seed_hex # None THEN Only(a, {"seed_hex"})
    ELSE IF a.mnemonic # None THEN Only(a, {"mnemonic"})
    ELSE IF a.uri # None THEN Only(a, {"uri"})
    ELSE a

BuiltAs(r, self) == r.err = "" /\ SameKeypair(r.kp, self)

\* C3: when no stored key is loaded, the constructor's key material is that of the first
\* applicable provenance (seed / seed_hex, else mnemonic, else uri, else the raw keys)
\* alone: the public key, private key, address and scheme are those of the same call
\* without the arguments of lower priority.
C3_FirstProvenanceWins ==
    (pc[1] = "done" /\ last.op = "init" /\ ~NoProvenance(targs[1]))
    => BuiltAs(Init__(EmptyStorage, Winner(targs[1]), Str(<<"g1">>)), kp[1])

C3_Witness ==
    /\ pc[1] = "done" /\ last.op = "init"
    /\ targs[1].seed = None /\ targs[1].seed_hex = S1Hex /\ targs[1].mnemonic = M1
    /\ targs[1].uri = Alice /\ targs[1].private_key # None /\ targs[1].public_key # None
    /\ kp[1].public_key = SrPub(SeedBytes("s1"))

\* what the suri grammar says of suri: the development phrase stands for an empty phrase
GrammarParts(suri) == SuriParts(IF StartsWithSlash(suri) THEN DEV_PHRASE \o suri ELSE suri)

\* C4: Keypair(uri=u), u a derivation path alone such as '//Alice', scheme sr25519, holds
\* the child key: the root key of the development phrase with every junction of the path
\* folded over it in order.
C4_UriPathDerivesChild ==
    ( /\ pc[1] = "done" /\ last.op = "init"
      /\ OnlyGiven(targs[1], "uri") /\ targs[1].crypto_type = SR
      /\ StartsWithSlash(targs[1].uri.v)
      /\ GrammarParts(targs[1].uri.v).path # <<>> )
    => AsBytes(kp[1].public_key) =
           Walk(SrPub(MiniSecret(GrammarParts(targs[1].uri.v).phrase)),
                GrammarParts(targs[1].uri.v).path)

\* the phrase a public key descends from
RootPhrase(pub) == SubSeq(AsBytes(pub).v, 3, 4)

\* C5: for a uri that starts with a phrase P, the key is resolved from the mnemonic P;
\* the development phrase is used only when the uri starts with '/'.
C5_UriUsesCallersPhrase ==
    ( /\ pc[1] = "done" /\ last.op \in {"init", "create_from_uri"}
      /\ OnlyGiven(targs[1], "uri")
      /\ ~StartsWithSlash(targs[1].uri.v) )
    => RootPhrase(kp[1].public_key) = <<"mini", targs[1].uri.v[1]>>

\* C6: on a freshly constructed Keypair(), which has a private key, verify(m, sign(m))
\* completes without error and returns True.
C6_SignVerifyRoundTrip ==
    ( /\ last.op = "sign_verify"
      /\ made[last.obj].a = DefaultArgs /\ made[last.obj].how \in {"built", "loaded"}
      /\ Truthy(kp[last.obj].private_key) )
    => last.err = "" /\ last.ret = True

\* C7: sign, verify, encrypt_message, state_dict and save leave every field of every
\* Keypair as it was, the type of the byte fields included.
C7_MethodsLeaveFields ==
    [][(steps' # steps /\ last'.op \in {"sign_verify", "encrypt", "state_dict", "save"})
       => kp' = kp]_vars

\* C8: no two encrypt_message calls that omit the nonce encrypt under the same nonce.
C8_NoImplicitNonceReuse ==
    \A m, n \in DOMAIN implicitNonces : m # n => implicitNonces[m] # implicitNonces[n]

\* C9: two threads that construct Keypairs with the default arguments and different seeds
\* each end, in every interleaving, with the key of their own seed.
C9_ThreadsHoldOwnKey ==
    \A t \in Objs :
        ( /\ pc[t] = "done"
          /\ \A u \in Objs : targs[u].path = DefaultArgs.path
          /\ AsBytes(SeedHexArg(targs[1])) # AsBytes(SeedHexArg(targs[2])) )
        => AsBytes(kp[t].public_key) = SrPub(AsBytes(SeedHexArg(targs[t])))

\* C10: save(path, password=p) followed by load(path, password=p), on the same or on
\* another object, yields the address, public key, private key and crypto_type of the
\* Keypair that was saved.
C10_SaveLoadRoundTrip ==
    (last.op = "save_load" /\ last.err = "") => SameKeypair(last.before, kp[last.obj])

\* C11: for an sr25519 Keypair with a private key, create_from_encrypted_json of its
\* export_to_encrypted_json under the same passphrase returns a Keypair with the same
\* address and public key, whatever the key storage holds; under another passphrase the
\* import fails and returns no Keypair.
C11_ExportImportRoundTrip ==
    ( /\ last.op = "export_import"
      /\ kp[1].crypto_type = SR /\ Truthy(kp[1].private_key) )
    => IF last.args.p = last.args.q
       THEN last.err = "" /\ SameIdentity(last.ret, kp[1])
       ELSE last.err # "" /\ last.ret = EmptyDict

\* C12: every Keypair a constructor call or a class method returns has the lengths of
\* its scheme: sr25519 and ed25519 hold a public_key of exactly 32 bytes and a
\* private_key, if present, of exactly 64 bytes; ecdsa holds a public_key of exactly
\* 20 bytes.
C12_LengthInvariant ==
    pc[1] = "done"
    => IF kp[1].crypto_type = ECDSA
       THEN ByteLen(kp[1].public_key) = 20
       ELSE /\ ByteLen(kp[1].public_key) = 32
            /\ Truthy(kp[1].private_key) => ByteLen(kp[1].private_key) = 64

\* C13: a non-ecdsa Keypair returned by the constructor holds the address of its own
\* public key and network format, whatever ss58_address, public_key and private_key
\* the call supplied (stated for the instances that hold a network format).
C13_AddressOfOwnPublicKey ==
    ( /\ pc[1] = "done" /\ last.op = "init"
      /\ kp[1].crypto_type # ECDSA /\ kp[1].ss58_format.ty = "int" )
    => kp[1].ss58_address = Ss58Encode(AsBytes(kp[1].public_key), kp[1].ss58_format)

\* the checks a verify call that returned made: its signature as bytes, its data
\* normalized, the key it checked against
SigArg == AsBytes(last.args.signature)
DataArg == Normalize(last.args.data)
FirstCheck == SchemeVerify(last.args.crypto_type, SigArg, DataArg, last.before.public_key)
SecondCheck ==
    SchemeVerify(last.args.crypto_type, SigArg, Wrapped(DataArg), last.before.public_key)

\* C14: a verify call that returns hands the backend of its crypto_type the normalized
\* data first and, only when that check is false, the data between '<Bytes>' and
\* '</Bytes>' once more; it returns True iff one of the two checks is true and makes no
\* further attempt, for sr25519, ed25519 and ecdsa alike.
C14_VerifyRetriesOnceWrapped ==
    ( last.op = "verify" /\ last.err = "" )
    => /\ last.args.crypto_type \in CryptoTypes
       /\ last.tried = IF FirstCheck THEN <<DataArg>> ELSE <<DataArg, Wrapped(DataArg)>>
       /\ last.ret = IF FirstCheck \/ SecondCheck THEN True ELSE False

\* a signature over the wrapped form of the data was accepted by the second check
C14_Witness ==
    /\ last.op = "verify" /\ last.err = ""
    /\ SigArg = Signature(PrivOf(last.before.public_key), Wrapped(DataArg))
    /\ last.tried = <<DataArg, Wrapped(DataArg)>>
    /\ last.ret = True

\* C15: verify called with a signature that is bytes, of whatever length, with data it
\* can normalize and a supported crypto_type, returns a boolean and raises nothing.
C15_VerifyReturnsBoolean ==
    ( /\ last.op = "verify"
      /\ last.args.signature.ty = "bytes"
      /\ CanNormalize(last.args.data)
      /\ last.args.crypto_type \in CryptoTypes )
    => last.err = "" /\ last.ret \in {True, False}

\* a sign call on a Keypair that holds no private key
VerifyOnlySigned == last.op = "sign" /\ ~Truthy(last.before.private_key)

\* C16 as stated: on a Keypair without a private key, sign raises the no-private-key
\* error for every data value and every crypto_type argument, returns no signature and
\* leaves the instance as it was.
C16_VerifyOnlyNoPrivateKeyError ==
    VerifyOnlySigned
    => /\ last.err = NoPrivateKeyToSign
       /\ last.ret = None
       /\ kp[1] = last.before

\* C16, amended: on a Keypair without a private key, sign raises for every text data
\* and every crypto_type argument, returns no signature and leaves the instance as it
\* was; the error is the no-private-key error unless the data is '0x' followed by text
\* that is not hexadecimal, whose conversion raises ValueError before the private key
\* is looked at.
C16_VerifyOnlyCannotSign ==
    VerifyOnlySigned
    => /\ last.err = IF CanNormalize(last.args.data) THEN NoPrivateKeyToSign ELSE "ValueError"
       /\ last.ret = None
       /\ kp[1] = last.before

\* a Keypair made from an address alone refused to sign under a scheme argument other
\* than the default
C16_Witness ==
    /\ VerifyOnlySigned
    /\ targs[1].ss58_address # None /\ targs[1].public_key = None
    /\ last.args.crypto_type = ED
    /\ last.err = NoPrivateKeyToSign

\* a call of encrypt_message or decrypt_message
Messaged == last.op \in {"encrypt", "decrypt"}
NoPrivateKeyToMessage ==
    IF last.op = "encrypt" THEN NoPrivateKeyToEncrypt ELSE NoPrivateKeyToDecrypt

\* C17 as stated: on a Keypair whose scheme is not ed25519, encrypt_message and
\* decrypt_message raise the unsupported-scheme error whether or not a private key is
\* held; on an ed25519 Keypair without a private key they raise the no-private-key
\* error.
C17_NonEd25519Unsupported ==
    Messaged
    => /\ last.before.crypto_type # ED => last.err = OnlyEd25519
       /\ (last.before.crypto_type = ED /\ ~Truthy(last.before.private_key))
              => last.err = NoPrivateKeyToMessage

\* C17, amended: encrypt_message and decrypt_message raise the no-private-key error on
\* every Keypair without a private key, whatever its scheme, and the unsupported-scheme
\* error on a Keypair that holds a private key and whose scheme is not ed25519; either
\* way nothing is returned.
C17_MessagingNeedsEd25519Key ==
    Messaged
    => /\ ~Truthy(last.before.private_key)
              => last.err = NoPrivateKeyToMessage /\ last.ret = None
       /\ (Truthy(last.before.private_key) /\ last.before.crypto_type # ED)
              => last.err = OnlyEd25519 /\ last.ret = None

\* an sr25519 Keypair without a private key was asked to encrypt
C17_Witness ==
    /\ last.op = "encrypt"
    /\ last.before.crypto_type = SR /\ ~Truthy(last.before.private_key)
    /\ last.err = NoPrivateKeyToEncrypt

\* C18: a constructor or class-method call that raises has written nothing to the key
\* storage and leaves no Keypair behind.
C18_FailedCallLeavesNoTrace ==
    pc[1] = "failed" => storage = EmptyStorage /\ kp[1] = EmptyDict /\ ~live[1]

\* C19: a uri with a non-empty derivation path, asked for the ed25519 scheme through
\* the constructor or through create_from_uri, raises the unsupported-derivation error
\* and yields no Keypair.
C19_PathsOnlyForSr25519 ==
    ( /\ last.op \in {"init", "create_from_uri"}
      /\ OnlyGiven(targs[1], "uri") /\ targs[1].crypto_type = ED
      /\ GrammarParts(targs[1].uri.v).path # <<>> )
    => pc[1] = "failed" /\ last.err = "NotImplementedError" /\ ~live[1]

\* C20: create_from_uri with crypto_type 'ecdsa' returns an ecdsa Keypair whose
\* private_key is the key the mnemonic-to-key function gives for the uri's phrase and
\* path, and whose public_key and address are those of that private key.
C20_EcdsaFromUri ==
    ( last.op = "create_from_uri" /\ targs[1].crypto_type = ECDSA )
    => /\ pc[1] = "done" /\ last.err = ""
       /\ kp[1].crypto_type = ECDSA
       /\ AsBytes(kp[1].private_key) =
              EcdsaPrivFromMnemonic(GrammarParts(targs[1].uri.v).phrase,
                                    DropFirstChar(GrammarParts(targs[1].uri.v).path))
       /\ AsBytes(kp[1].public_key) = AsBytes(EcdsaAddress(AsBytes(kp[1].private_key)))
       /\ kp[1].ss58_address = EcdsaChecksumAddress(AsBytes(kp[1].private_key))

\* C21: verify given a public key, as its public_key argument or inside the record,
\* returns True exactly when the signature is one over the data, or over its wrapped
\* form, by the holder of that public key.
C21_VerifyAgainstSuppliedKey ==
    ( last.op = "verify_with" /\ last.err = "" )
    => last.ret =
         IF \/ SchemeVerify(last.args.crypto_type, SigArg, DataArg,
                            AsBytes(last.args.public_key))
            \/ SchemeVerify(last.args.crypto_type, SigArg, Wrapped(DataArg),
                            AsBytes(last.args.public_key))
         THEN True ELSE False

\* the key material of a is what the constructor call with the arguments a builds when
\* nothing is stored
BuiltFrom(self, a) ==
    \E gen \in GenMnemonics : BuiltAs(Init__(EmptyStorage, [a EXCEPT !.save = FALSE], gen), self)

\* a constructor call with the arguments a returned self, turning the storage from
\* store into after
LoadedOrBuilt(self, a, store, after) ==
    IF LoadsStored(store, a)
    THEN /\ SameKeypair(self, store[a.path.v[1]].data)
         /\ after = store
    ELSE /\ BuiltFrom(self, a)
         /\ IF a.save
            THEN /\ after[a.path.v[1]].present
                 /\ SameKeypair(after[a.path.v[1]].data, self)
                 /\ \A p \in Paths \ {a.path.v[1]} : after[p] = store[p]
            ELSE after = store

\* C22: a constructor call whose path names a stored key, with load = True and
\* refresh = False, returns the stored Keypair whatever provenance it was given and
\* writes nothing; otherwise it returns the Keypair of the supplied provenance and, with
\* save = True, leaves it stored under the path.
C22_LoadBeforeProvenance ==
    [][(steps' # steps /\ last'.op = "init" /\ last'.err = "")
       => LoadedOrBuilt(kp'[last'.obj], made'[last'.obj].a, storage, storage')]_vars

=============================================================================
